---- MODULE Spec2Model ----
(***************************************************************************)
(* A model of example-bezier (src/main.cpp): a program that draws one      *)
(* quadratic and one cubic Bezier curve through SDL2 as STEPS straight     *)
(* segments each, presents the frame and waits for a quit event.           *)
(*                                                                         *)
(* Arithmetic.  The program computes in C float.  The model computes in    *)
(* exact rational arithmetic (a normalised numerator/denominator pair), so *)
(* every equality below is an equality of real numbers; binary32 rounding  *)
(* is not modelled.                                                        *)
(*                                                                         *)
(* Three state machines share the actions of the evaluators:               *)
(*   Spec      the whole of main(), with the macro control points and      *)
(*             the constant STEPS, and SDL as a nondeterministic           *)
(*             environment (start-up failures, arriving events);           *)
(*   SpecEval  one call of draw_bezier_quadratic or draw_bezier_cubic      *)
(*             with control points and step count drawn from bounded sets; *)
(*   SpecLerp  one call of lerp with arguments drawn from bounded sets.    *)
(***************************************************************************)
EXTENDS Integers, Sequences, FiniteSets

VARIABLES
    pc,            \* position of the running code
    stack,         \* return addresses of the calls in progress
    step_count,    \* the value of STEPS the build was made with
    ctrl,          \* arguments of the current call: its control points
    interp,        \* local `float interp` (lerp's first parameter in SpecLerp)
    i,             \* local `int i` of the running loop
    curve_prev,    \* local `Point curve_prev`
    curve_current, \* local `Point curve_current`
    lerp_result,   \* value returned by lerp (SpecLerp)
    drawColor,     \* the renderer's current draw colour
    calls,         \* the SDL calls issued so far, in order
    video,         \* SDL video subsystem: "off", "on", "quit"
    window,        \* SDL_Window *window: "null", "open", "destroyed"
    renderer,      \* SDL_Renderer *renderer: "null", "open", "destroyed"
    events,        \* SDL's queue of pending events
    arrived,       \* number of events the environment has posted
    event,         \* local `SDL_Event event`: the event polled last
    quit,          \* local `SDL_bool quit`
    exit_status    \* value returned by main

vars == <<pc, stack, step_count, ctrl, interp, i, curve_prev, curve_current,
          lerp_result, drawColor, calls, video, window, renderer, events,
          arrived, event, quit, exit_status>>

----------------------------------------------------------------------------
(* Bounds of the model *)

MaxSteps == 3

MaxEvents == 3

----------------------------------------------------------------------------
(* Program constants *)

W == 400

H == 400

STEPS == 20

----------------------------------------------------------------------------
(* float, modelled as exact rationals n/d with d > 0 in lowest terms *)

Abs(n) == IF n < 0 THEN 0 - n ELSE n

RECURSIVE GCD(_, _)
GCD(a, b) == IF b = 0 THEN a ELSE GCD(b, a % b)

Rat(n, d) ==
    LET g == GCD(Abs(n), d)
    IN  [n |-> n \div g, d |-> d \div g]

Zero == Rat(0, 1)

One == Rat(1, 1)

Half == Rat(1, 2)

\* Sums are taken over the least common denominator, which keeps the
\* intermediate integers small.
RAdd(a, b) ==
    LET g == GCD(a.d, b.d)
    IN  Rat(a.n * (b.d \div g) + b.n * (a.d \div g), (a.d \div g) * b.d)

RSub(a, b) ==
    LET g == GCD(a.d, b.d)
    IN  Rat(a.n * (b.d \div g) - b.n * (a.d \div g), (a.d \div g) * b.d)

RMul(a, b) == Rat(a.n * b.n, a.d * b.d)

\* Conversion of a float to int: truncation toward zero.
ToInt(r) == IF r.n >= 0 THEN r.n \div r.d ELSE 0 - ((0 - r.n) \div r.d)

\* typedef struct { float x; float y; } Point;
Pt(x, y) == [x |-> x, y |-> y]

\* A Point object that has not been assigned yet (or is out of scope).
Indeterminate == [x |-> [n |-> 0, d |-> 0], y |-> [n |-> 0, d |-> 0]]

QUAD_P0 == Pt(Rat(2, 10), Rat(2, 10))

QUAD_P1 == Pt(Rat(5, 10), Rat(9, 10))

QUAD_P2 == Pt(Rat(9, 10), Rat(1, 10))

CUBIC_P0 == Pt(Rat(1, 10), Rat(9, 10))

CUBIC_P1 == Pt(Rat(3, 10), Rat(2, 10))

CUBIC_P2 == Pt(Rat(5, 10), Rat(16, 10))

CUBIC_P3 == Pt(Rat(8, 10), Rat(4, 10))

----------------------------------------------------------------------------
(* Pure functions of the program *)

\* A lerp with its two points exchanged.
lerp_swapped(t, p0, p1) ==
    Pt(RAdd(RMul(t, p0.x), RMul(RSub(One, t), p1.x)),
       RAdd(RMul(t, p0.y), RMul(RSub(One, t), p1.y)))

lerp(t, p0, p1) ==
    Pt(RAdd(RMul(RSub(One, t), p0.x), RMul(t, p1.x)),
       RAdd(RMul(RSub(One, t), p0.y), RMul(t, p1.y)))

\* The interpolation value with the (float) cast dropped: integer division.
InterpIntDiv(k, n) == Rat(k \div n, 1)

\* The interpolation value taken at the start of the segment instead of its end.
InterpLagging(k, n) == Rat(k - 1, n)

\* float interp = (float) i / STEPS;
Interp(k, n) == Rat(k, n)

\* The body of the quadratic loop up to curve_current.
QuadPoint(t, p0, p1, p2) ==
    LET p0_p1_interp == lerp(t, p0, p1)
        p1_p2_interp == lerp(t, p1, p2)
    IN  lerp(t, p0_p1_interp, p1_p2_interp)

\* A cubic whose last layer interpolates towards the first-layer point.
CubicPointShallow(t, p0, p1, p2, p3) ==
    LET p0_p1_interp == lerp(t, p0, p1)
        p1_p2_interp == lerp(t, p1, p2)
        p2_p3_interp == lerp(t, p2, p3)
        p0p1_p1p2_interp == lerp(t, p0_p1_interp, p1_p2_interp)
    IN  lerp(t, p0p1_p1p2_interp, p2_p3_interp)

\* The body of the cubic loop up to curve_current.
CubicPoint(t, p0, p1, p2, p3) ==
    LET p0_p1_interp == lerp(t, p0, p1)
        p1_p2_interp == lerp(t, p1, p2)
        p2_p3_interp == lerp(t, p2, p3)
        p0p1_p1p2_interp == lerp(t, p0_p1_interp, p1_p2_interp)
        p1p2_p2p3_interp == lerp(t, p1_p2_interp, p2_p3_interp)
    IN  lerp(t, p0p1_p1p2_interp, p1p2_p2p3_interp)

----------------------------------------------------------------------------
(* SDL calls, as entries of the log *)

Black == <<0, 0, 0, 255>>

Green == <<0, 255, 0, 255>>

Red == <<255, 0, 0, 255>>

Call(fn, ret, args) == [fn |-> fn, ret |-> ret, args |-> args]

SetColorCall(c) == Call("SDL_SetRenderDrawColor", 0, c)

\* SDL_RenderDrawLine(renderer, W * a.x, H * a.y, W * b.x, H * b.y), drawn in
\* the renderer's current colour; from/to are the Points the pixels come from.
DrawLineCall(a, b, colour) ==
    Call("SDL_RenderDrawLine", 0,
         [x1 |-> ToInt(RMul(Rat(W, 1), a.x)), y1 |-> ToInt(RMul(Rat(H, 1), a.y)),
          x2 |-> ToInt(RMul(Rat(W, 1), b.x)), y2 |-> ToInt(RMul(Rat(H, 1), b.y)),
          from |-> a, to |-> b, color |-> colour])

\* A clear that sets the colour and never clears.
clear_colour_only(log) == log \o <<SetColorCall(Black)>>

\* void clear(SDL_Renderer *renderer)
clear(log) == log \o <<SetColorCall(Black), Call("SDL_RenderClear", 0, <<>>)>>

----------------------------------------------------------------------------
(* Function return *)

Return ==
    /\ pc' = IF stack = <<>> THEN "returned" ELSE Head(stack)
    /\ stack' = IF stack = <<>> THEN <<>> ELSE Tail(stack)
    /\ ctrl' = <<>>
    /\ interp' = Zero
    /\ i' = 0
    /\ curve_prev' = Indeterminate
    /\ curve_current' = Indeterminate

Locals == <<ctrl, interp, i, curve_prev, curve_current>>

Sdl == <<video, window, renderer>>

Loop == <<events, arrived, event, quit>>

----------------------------------------------------------------------------
(* draw_bezier_quadratic *)

QuadBegin ==
    /\ pc = "quad_entry"
    /\ curve_prev' = ctrl[1]
    /\ drawColor' = Green
    /\ calls' = Append(calls, SetColorCall(Green))
    /\ i' = 1
    /\ pc' = "quad_loop"
    /\ UNCHANGED <<stack, step_count, ctrl, interp, curve_current, lerp_result,
                   Sdl, Loop, exit_status>>

\* An iteration that forgets to move curve_prev.
QuadStepStuck ==
    /\ pc = "quad_loop"
    /\ i <= step_count
    /\ LET t == Interp(i, step_count)
           point == QuadPoint(t, ctrl[1], ctrl[2], ctrl[3])
       IN  /\ interp' = t
           /\ curve_current' = point
           /\ calls' = Append(calls, DrawLineCall(curve_prev, point, drawColor))
           /\ curve_prev' = curve_prev
    /\ i' = i + 1
    /\ UNCHANGED <<pc, stack, step_count, ctrl, lerp_result, drawColor,
                   Sdl, Loop, exit_status>>

QuadStep ==
    /\ pc = "quad_loop"
    /\ i <= step_count
    /\ LET t == Interp(i, step_count)
           point == QuadPoint(t, ctrl[1], ctrl[2], ctrl[3])
       IN  /\ interp' = t
           /\ curve_current' = point
           /\ calls' = Append(calls, DrawLineCall(curve_prev, point, drawColor))
           /\ curve_prev' = point
    /\ i' = i + 1
    /\ UNCHANGED <<pc, stack, step_count, ctrl, lerp_result, drawColor,
                   Sdl, Loop, exit_status>>

QuadReturn ==
    /\ pc = "quad_loop"
    /\ ~(i <= step_count)
    /\ Return
    /\ UNCHANGED <<step_count, lerp_result, drawColor, calls, Sdl, Loop,
                   exit_status>>

----------------------------------------------------------------------------
(* draw_bezier_cubic *)

CubicBegin ==
    /\ pc = "cubic_entry"
    /\ curve_prev' = ctrl[1]
    /\ drawColor' = Red
    /\ calls' = Append(calls, SetColorCall(Red))
    /\ i' = 1
    /\ pc' = "cubic_loop"
    /\ UNCHANGED <<stack, step_count, ctrl, interp, curve_current, lerp_result,
                   Sdl, Loop, exit_status>>

CubicStep ==
    /\ pc = "cubic_loop"
    /\ i <= step_count
    /\ LET t == Interp(i, step_count)
           point == CubicPoint(t, ctrl[1], ctrl[2], ctrl[3], ctrl[4])
       IN  /\ interp' = t
           /\ curve_current' = point
           /\ calls' = Append(calls, DrawLineCall(curve_prev, point, drawColor))
           /\ curve_prev' = point
    /\ i' = i + 1
    /\ UNCHANGED <<pc, stack, step_count, ctrl, lerp_result, drawColor,
                   Sdl, Loop, exit_status>>

CubicReturn ==
    /\ pc = "cubic_loop"
    /\ ~(i <= step_count)
    /\ Return
    /\ UNCHANGED <<step_count, lerp_result, drawColor, calls, Sdl, Loop,
                   exit_status>>

----------------------------------------------------------------------------
(* main *)

\* SDL_Init(SDL_INIT_VIDEO) succeeds or fails.
MainInit ==
    /\ pc = "main_init"
    /\ \E ret \in {0, -1} :
        /\ calls' = Append(calls, Call("SDL_Init", ret, <<>>))
        /\ IF ret # 0
           THEN /\ pc' = "exited"
                /\ exit_status' = 1
                /\ video' = video
           ELSE /\ pc' = "main_create"
                /\ exit_status' = exit_status
                /\ video' = "on"
    /\ UNCHANGED <<stack, step_count, Locals, lerp_result, drawColor, window,
                   renderer, Loop>>

\* A failed window creation that returns the status of a failed SDL_Init.
MainCreateSameStatus ==
    /\ pc = "main_create"
    /\ \E ret \in {0, -1} :
        /\ calls' = Append(calls, Call("SDL_CreateWindowAndRenderer", ret, <<W, H>>))
        /\ IF ret # 0
           THEN /\ pc' = "exited"
                /\ exit_status' = 1
                /\ UNCHANGED <<window, renderer>>
           ELSE /\ pc' = "main_clear"
                /\ exit_status' = exit_status
                /\ window' = "open"
                /\ renderer' = "open"
    /\ UNCHANGED <<stack, step_count, Locals, lerp_result, drawColor, video, Loop>>

\* SDL_CreateWindowAndRenderer(W, H, 0, &window, &renderer) succeeds or fails;
\* on failure both pointers keep the NULL they were initialised with, and
\* main returns 2 at once.
MainCreate ==
    /\ pc = "main_create"
    /\ \E ret \in {0, -1} :
        /\ calls' = Append(calls, Call("SDL_CreateWindowAndRenderer", ret, <<W, H>>))
        /\ IF ret # 0
           THEN /\ pc' = "exited"
                /\ exit_status' = 2
                /\ UNCHANGED <<window, renderer>>
           ELSE /\ pc' = "main_clear"
                /\ exit_status' = exit_status
                /\ window' = "open"
                /\ renderer' = "open"
    /\ UNCHANGED <<stack, step_count, Locals, lerp_result, drawColor, video, Loop>>

MainClear ==
    /\ pc = "main_clear"
    /\ calls' = clear(calls)
    /\ drawColor' = Black
    /\ pc' = "main_call_quad"
    /\ UNCHANGED <<stack, step_count, Locals, lerp_result, Sdl, Loop, exit_status>>

MainCallQuad ==
    /\ pc = "main_call_quad"
    /\ ctrl' = <<QUAD_P0, QUAD_P1, QUAD_P2>>
    /\ stack' = <<"main_call_cubic">> \o stack
    /\ pc' = "quad_entry"
    /\ UNCHANGED <<step_count, interp, i, curve_prev, curve_current, lerp_result,
                   drawColor, calls, Sdl, Loop, exit_status>>

MainCallCubic ==
    /\ pc = "main_call_cubic"
    /\ ctrl' = <<CUBIC_P0, CUBIC_P1, CUBIC_P2, CUBIC_P3>>
    /\ stack' = <<"main_present">> \o stack
    /\ pc' = "cubic_entry"
    /\ UNCHANGED <<step_count, interp, i, curve_prev, curve_current, lerp_result,
                   drawColor, calls, Sdl, Loop, exit_status>>

MainPresent ==
    /\ pc = "main_present"
    /\ calls' = Append(calls, Call("SDL_RenderPresent", 0, <<>>))
    /\ pc' = "main_loop"
    /\ UNCHANGED <<stack, step_count, Locals, lerp_result, drawColor, Sdl, Loop,
                   exit_status>>

\* while (!quit)
MainLoopTest ==
    /\ pc = "main_loop"
    /\ pc' = IF ~quit THEN "main_poll" ELSE "main_cleanup"
    /\ UNCHANGED <<stack, step_count, Locals, lerp_result, drawColor, calls, Sdl,
                   Loop, exit_status>>

SDL_KEYDOWN == "SDL_KEYDOWN"

SDL_KEYUP == "SDL_KEYUP"

SDL_QUIT == "SDL_QUIT"

SDLK_ESCAPE == "SDLK_ESCAPE"

SDLK_a == "SDLK_a"

NoEvent == [type |-> "none", sym |-> "none"]

\* The events the environment may post.
EventKinds ==
    { [type |-> SDL_KEYDOWN, sym |-> SDLK_ESCAPE],
      [type |-> SDL_KEYDOWN, sym |-> SDLK_a],
      [type |-> SDL_KEYUP, sym |-> SDLK_ESCAPE],
      [type |-> SDL_QUIT, sym |-> "none"] }

\* A switch in which every key press quits.
HandleAnyKey(e, q) ==
    IF e.type = SDL_KEYDOWN THEN TRUE
    ELSE IF e.type = SDL_QUIT THEN TRUE
    ELSE q

\* The switch on event.type: the value of quit after handling event e.
Handle(e, q) ==
    IF e.type = SDL_KEYDOWN
    THEN (IF e.sym = SDLK_ESCAPE THEN TRUE ELSE q)
    ELSE IF e.type = SDL_QUIT THEN TRUE
    ELSE q

\* SDL_PollEvent(&event) returns 1: the head of the queue is handled.
MainPollEvent ==
    /\ pc = "main_poll"
    /\ events # <<>>
    /\ event' = Head(events)
    /\ events' = Tail(events)
    /\ quit' = Handle(event', quit)
    /\ UNCHANGED <<pc, stack, step_count, Locals, lerp_result, drawColor, calls,
                   Sdl, arrived, exit_status>>

\* SDL_PollEvent(&event) returns 0; SDL_Delay(5); back to the loop test.
MainPollEmpty ==
    /\ pc = "main_poll"
    /\ events = <<>>
    /\ pc' = "main_loop"
    /\ UNCHANGED <<stack, step_count, Locals, lerp_result, drawColor, calls, Sdl,
                   Loop, exit_status>>

\* The tidy-up after the loop, and return 0.
MainCleanup ==
    /\ pc = "main_cleanup"
    /\ calls' = calls
                \o (IF renderer # "null"
                    THEN <<Call("SDL_DestroyRenderer", 0, <<>>)>> ELSE <<>>)
                \o (IF window # "null"
                    THEN <<Call("SDL_DestroyWindow", 0, <<>>)>> ELSE <<>>)
                \o <<Call("SDL_Quit", 0, <<>>)>>
    /\ renderer' = IF renderer # "null" THEN "destroyed" ELSE renderer
    /\ window' = IF window # "null" THEN "destroyed" ELSE window
    /\ video' = "quit"
    /\ exit_status' = 0
    /\ pc' = "exited"
    /\ UNCHANGED <<stack, step_count, Locals, lerp_result, drawColor, Loop>>

\* The environment: the user or the window system posts an event.
PostEvent ==
    /\ video = "on"
    /\ pc # "exited"
    /\ arrived < MaxEvents
    /\ \E e \in EventKinds : events' = Append(events, e)
    /\ arrived' = arrived + 1
    /\ UNCHANGED <<pc, stack, step_count, Locals, lerp_result, drawColor, calls,
                   Sdl, event, quit, exit_status>>

----------------------------------------------------------------------------
(* One call of lerp *)

LerpCall ==
    /\ pc = "lerp_entry"
    /\ lerp_result' = lerp(interp, ctrl[1], ctrl[2])
    /\ pc' = "lerp_returned"
    /\ UNCHANGED <<stack, step_count, Locals, drawColor, calls, Sdl, Loop,
                   exit_status>>

----------------------------------------------------------------------------
(* Specifications *)

Idle ==
    /\ stack = <<>>
    /\ interp = Zero
    /\ i = 0
    /\ curve_prev = Indeterminate
    /\ curve_current = Indeterminate
    /\ lerp_result = Indeterminate
    /\ drawColor = Black
    /\ calls = <<>>
    /\ events = <<>>
    /\ arrived = 0
    /\ event = NoEvent
    /\ quit = FALSE
    /\ exit_status = 0

\* The program as built: main() is entered, nothing is initialised.
Init ==
    /\ pc = "main_init"
    /\ step_count = STEPS
    /\ ctrl = <<>>
    /\ video = "off"
    /\ window = "null"
    /\ renderer = "null"
    /\ Idle

Evaluators ==
    \/ QuadBegin \/ QuadStep \/ QuadReturn
    \/ CubicBegin \/ CubicStep \/ CubicReturn

Program ==
    \/ MainInit \/ MainCreate \/ MainClear \/ MainCallQuad \/ MainCallCubic
    \/ MainPresent \/ MainLoopTest \/ MainPollEvent \/ MainPollEmpty
    \/ MainCleanup
    \/ Evaluators

Next == Program \/ PostEvent

Spec == Init /\ [][Next]_vars

\* The part of main after the frame is presented: the wait loop and the tidy-up.
WaitAndTidy == MainLoopTest \/ MainPollEvent \/ MainPollEmpty \/ MainCleanup

\* The program is one thread that keeps running: SDL_PollEvent and SDL_Delay
\* return, so the next step of the wait loop and of the tidy-up is taken.
LiveSpec == Spec /\ WF_vars(WaitAndTidy)

\* Coordinates and points the evaluators and lerp are exercised on.
EvalPoints ==
    { Pt(Zero, Zero), Pt(One, Zero), Pt(One, One), Pt(Zero, One),
      Pt(Half, Rat(16, 10)) }

StepCounts == (0 - 1) .. MaxSteps

Factors == { Zero, One, Half, Rat(1, 4), Rat(3, 2), Rat(0 - 1, 2) }

\* An evaluator is entered with a live renderer, any control points and any
\* value of STEPS.
InitEval ==
    /\ \/ /\ pc = "quad_entry"
          /\ ctrl \in {<<a, b, c>> : a \in EvalPoints, b \in EvalPoints, c \in EvalPoints}
       \/ /\ pc = "cubic_entry"
          /\ ctrl \in {<<a, b, c, d>> : a \in EvalPoints, b \in EvalPoints,
                                        c \in EvalPoints, d \in EvalPoints}
    /\ step_count \in StepCounts
    /\ video = "on"
    /\ window = "open"
    /\ renderer = "open"
    /\ Idle

NextEval == Evaluators

SpecEval == InitEval /\ [][NextEval]_vars

InitLerp ==
    /\ pc = "lerp_entry"
    /\ ctrl \in {<<a, b>> : a \in EvalPoints, b \in EvalPoints}
    /\ step_count = STEPS
    /\ video = "off"
    /\ window = "null"
    /\ renderer = "null"
    /\ stack = <<>>
    /\ interp \in Factors
    /\ i = 0
    /\ curve_prev = Indeterminate
    /\ curve_current = Indeterminate
    /\ lerp_result = Indeterminate
    /\ drawColor = Black
    /\ calls = <<>>
    /\ events = <<>>
    /\ arrived = 0
    /\ event = NoEvent
    /\ quit = FALSE
    /\ exit_status = 0

NextLerp == LerpCall

SpecLerp == InitLerp /\ [][NextLerp]_vars

----------------------------------------------------------------------------
(* Vocabulary of the properties *)

\* The segments drawn so far, in order.
Lines == SelectSeq(calls, LAMBDA c : c.fn = "SDL_RenderDrawLine")

Idx(fn) == {k \in DOMAIN calls : calls[k].fn = fn}

Called(fn) == Idx(fn) # {}

Failed(fn) == \E k \in Idx(fn) : calls[k].ret # 0

Succeeded(fn) == \E k \in Idx(fn) : calls[k].ret = 0

InLoop == pc \in {"quad_loop", "cubic_loop"}

Two == Rat(2, 1)

Three == Rat(3, 1)

\* (1-t)^2*a + 2t(1-t)*b + t^2*c
B2(t, a, b, c) ==
    LET u == RSub(One, t)
    IN  RAdd(RAdd(RMul(RMul(u, u), a),
                  RMul(RMul(Two, RMul(t, u)), b)),
             RMul(RMul(t, t), c))

Bernstein2(t, p) ==
    Pt(B2(t, p[1].x, p[2].x, p[3].x), B2(t, p[1].y, p[2].y, p[3].y))

\* (1-t)^3*a + 3t(1-t)^2*b + 3t^2(1-t)*c + t^3*d
B3(t, a, b, c, d) ==
    LET u == RSub(One, t)
    IN  RAdd(RAdd(RMul(RMul(u, RMul(u, u)), a),
                  RMul(RMul(Three, RMul(t, RMul(u, u))), b)),
             RAdd(RMul(RMul(Three, RMul(RMul(t, t), u)), c),
                  RMul(RMul(t, RMul(t, t)), d)))

Bernstein3(t, p) ==
    Pt(B3(t, p[1].x, p[2].x, p[3].x, p[4].x),
       B3(t, p[1].y, p[2].y, p[3].y, p[4].y))

----------------------------------------------------------------------------
(* C1: in draw_bezier_quadratic the end point of the k-th segment is the
   quadratic Bernstein polynomial (1-t)^2*p0 + 2t(1-t)*p1 + t^2*p2 at
   t = k/step_count; for p0=(0,0), p1=(1,0), p2=(1,1) and step_count = 2 the
   first point is (3/4, 1/4). *)
QuadraticMatchesBernstein ==
    pc = "quad_loop" =>
        /\ \A k \in 1 .. Len(Lines) :
               Lines[k].args.to = Bernstein2(Rat(k, step_count), ctrl)
        /\ ( /\ ctrl = <<Pt(Zero, Zero), Pt(One, Zero), Pt(One, One)>>
             /\ step_count = 2
             /\ Len(Lines) >= 1 )
           => Lines[1].args.to = Pt(Rat(3, 4), Rat(1, 4))

QuadraticMidpointReached ==
    /\ pc = "quad_loop"
    /\ ctrl = <<Pt(Zero, Zero), Pt(One, Zero), Pt(One, One)>>
    /\ step_count = 2
    /\ i = 2
    /\ curve_current = Pt(Rat(3, 4), Rat(1, 4))

(* C2: in draw_bezier_cubic the end point of the k-th segment is the cubic
   Bernstein polynomial (1-t)^3*p0 + 3t(1-t)^2*p1 + 3t^2(1-t)*p2 + t^3*p3 at
   t = k/step_count. *)
CubicMatchesBernstein ==
    pc = "cubic_loop" =>
        \A k \in 1 .. Len(Lines) :
            Lines[k].args.to = Bernstein3(Rat(k, step_count), ctrl)

CubicMidpointReached ==
    /\ pc = "cubic_loop"
    /\ ctrl = <<Pt(Zero, Zero), Pt(Zero, One), Pt(One, One), Pt(One, Zero)>>
    /\ step_count = 2
    /\ i = 2
    /\ curve_current = Pt(Half, Rat(3, 4))

(* C3: for step_count >= 1 an evaluator draws exactly step_count segments,
   the first starts at p0, every later one starts where the one before it
   ends, and curve_prev is the end of the segment drawn last. *)
SegmentsFormPolyline ==
    step_count >= 1 =>
        /\ Len(Lines) <= step_count
        /\ pc = "returned" => Len(Lines) = step_count
        /\ InLoop =>
               /\ Len(Lines) = i - 1
               /\ Len(Lines) >= 1 => Lines[1].args.from = ctrl[1]
               /\ curve_prev = IF Len(Lines) = 0 THEN ctrl[1]
                               ELSE Lines[Len(Lines)].args.to
        /\ \A k \in 2 .. Len(Lines) :
               /\ Lines[k].args.from = Lines[k - 1].args.to
               /\ Lines[k].args.x1 = Lines[k - 1].args.x2
               /\ Lines[k].args.y1 = Lines[k - 1].args.y2

PolylineCompleted ==
    /\ pc = "returned"
    /\ step_count >= 2
    /\ Len(Lines) = step_count
    /\ Lines[1].args.to # Lines[1].args.from

(* C4: for step_count >= 1, the point computed by the last iteration
   (i = step_count, t = 1) is the last control point, and with
   step_count = 1 the only segment runs from p0 to the last control point. *)
LastPointIsLastControl ==
    (InLoop /\ step_count >= 1 /\ i = step_count + 1) =>
        /\ curve_current = ctrl[Len(ctrl)]
        /\ Lines[Len(Lines)].args.to = ctrl[Len(ctrl)]
        /\ step_count = 1 =>
               /\ Len(Lines) = 1
               /\ Lines[1].args.from = ctrl[1]
               /\ Lines[1].args.to = ctrl[Len(ctrl)]

CubicSingleStepReached ==
    /\ pc = "cubic_loop"
    /\ ctrl = <<Pt(Zero, Zero), Pt(Zero, One), Pt(One, One), Pt(One, Zero)>>
    /\ step_count = 1
    /\ i = 2
    /\ curve_current = Pt(One, Zero)

(* C5: lerp(t, a, b) is a + t*(b - a) in each coordinate for every t, also
   outside [0,1]; lerp(0,a,b) = a, lerp(1,a,b) = b, and lerp(1/2,a,b) is the
   midpoint of a and b. *)
LerpBlends ==
    pc = "lerp_returned" =>
        LET a == ctrl[1]
            b == ctrl[2]
            r == lerp_result
        IN  /\ r.x = RAdd(a.x, RMul(interp, RSub(b.x, a.x)))
            /\ r.y = RAdd(a.y, RMul(interp, RSub(b.y, a.y)))
            /\ interp = Zero => r = a
            /\ interp = One => r = b
            /\ interp = Half =>
                   /\ RMul(Two, r.x) = RAdd(a.x, b.x)
                   /\ RMul(Two, r.y) = RAdd(a.y, b.y)

LerpExtrapolated ==
    /\ pc = "lerp_returned"
    /\ interp = Rat(3, 2)
    /\ ctrl = <<Pt(Zero, One), Pt(One, Zero)>>
    /\ lerp_result = Pt(Rat(3, 2), Rat(0 - 1, 2))

StartupFailuresExitDistinctly ==
    /\ Failed("SDL_Init") =>
           /\ pc = "exited"
           /\ exit_status = 1
           /\ ~Called("SDL_CreateWindowAndRenderer")
    /\ Failed("SDL_CreateWindowAndRenderer") =>
           /\ pc = "exited"
           /\ exit_status = 2
    /\ (Failed("SDL_Init") \/ Failed("SDL_CreateWindowAndRenderer")) =>
           /\ ~Called("SDL_SetRenderDrawColor")
           /\ ~Called("SDL_RenderClear")
           /\ ~Called("SDL_RenderDrawLine")
           /\ ~Called("SDL_RenderPresent")
    /\ (pc = "exited" /\ exit_status = 0) =>
           /\ Succeeded("SDL_Init")
           /\ Succeeded("SDL_CreateWindowAndRenderer")

WindowCreationFailed ==
    /\ pc = "exited"
    /\ exit_status = 2
    /\ Succeeded("SDL_Init")
    /\ Failed("SDL_CreateWindowAndRenderer")

(* C8: the wait loop is left exactly when quit is set; quit is set exactly
   by polling SDL_QUIT or a key-down of Escape, any other polled event
   leaves it as it was, it is never reset, and once it is set the program
   eventually exits with status 0. *)
QuitSignal(e) ==
    \/ e.type = SDL_QUIT
    \/ e.type = SDL_KEYDOWN /\ e.sym = SDLK_ESCAPE

Polled == events # <<>> /\ events' = Tail(events)

QuitOnlyOnSignal ==
    /\ [](pc = "main_cleanup" => quit)
    /\ [][ (pc = "main_loop" /\ pc' # pc) =>
               (pc' = IF quit THEN "main_cleanup" ELSE "main_poll") ]_vars
    /\ [][ Polled => (quit' <=> (quit \/ QuitSignal(Head(events)))) ]_vars
    /\ [][ ~Polled => quit' = quit ]_vars
    /\ [][ quit => quit' ]_vars
    /\ (quit ~> (pc = "exited" /\ exit_status = 0))

QuitAfterOtherKey ==
    /\ pc = "exited"
    /\ exit_status = 0
    /\ quit
    /\ arrived >= 2
    /\ ~QuitSignal(event)

(* C9: whenever the process ends after SDL_Init succeeded, the video
   subsystem has been shut down and no window or renderer is left open. *)
ResourcesReleasedOnExit ==
    (pc = "exited" /\ Succeeded("SDL_Init")) =>
        /\ video = "quit"
        /\ Called("SDL_Quit")
        /\ window # "open"
        /\ renderer # "open"

(* C10: the surface is cleared once, before any segment; the first STEPS
   segments are the quadratic's, drawn in green, the next STEPS the cubic's,
   drawn in red; the frame is presented once, after the last segment, and no
   colour, clear or line call follows the present. *)
RenderingOrder ==
    LET clears == Idx("SDL_RenderClear")
        lines == Idx("SDL_RenderDrawLine")
        colours == Idx("SDL_SetRenderDrawColor")
        presents == Idx("SDL_RenderPresent")
    IN  /\ Cardinality(clears) <= 1
        /\ Cardinality(presents) <= 1
        /\ Len(Lines) <= 2 * STEPS
        /\ \A l \in lines : \E c \in clears : c < l
        /\ \A r \in 1 .. Len(Lines) :
               Lines[r].args.color = IF r <= STEPS THEN Green ELSE Red
        /\ Len(Lines) >= 1 => Lines[1].args.from = QUAD_P0
        /\ Len(Lines) > STEPS => Lines[STEPS + 1].args.from = CUBIC_P0
        /\ \A p \in presents :
               /\ Len(Lines) = 2 * STEPS
               /\ \A k \in clears \cup lines \cup colours : k < p
        /\ ( \/ pc \in {"main_loop", "main_poll", "main_cleanup"}
             \/ pc = "exited" /\ exit_status = 0 )
           => /\ Cardinality(presents) = 1
              /\ Cardinality(clears) = 1

FramePresented ==
    /\ pc = "main_poll"
    /\ event # NoEvent
    /\ Called("SDL_RenderPresent")
    /\ Len(Lines) = 2 * STEPS
    /\ Lines[2 * STEPS].args.color = Red

====
